---- MODULE Spec2Model ----
(***************************************************************************)
(* Support-ticket triage pipeline (app/graph.py, app/main.py,              *)
(* app/server.py, app/utils.py, app/schema.py).                            *)
(*                                                                         *)
(* A Python str is modelled as a sequence of one-character strings, so     *)
(* that strip, upper, replace, the substring test and the ORD regular      *)
(* expression are computed character by character as the code does.        *)
(* Python None is the value None below; "" is the empty sequence << >>.    *)
(***************************************************************************)
EXTENDS Integers, Sequences, FiniteSets, TLC

\* ------------------------------------------------------------------------
\* Python string primitives
\* ------------------------------------------------------------------------

None == <<"<None>">>

LowerCase == <<"a","b","c","d","e","f","g","h","i","j","k","l","m",
               "n","o","p","q","r","s","t","u","v","w","x","y","z">>
UpperCase == <<"A","B","C","D","E","F","G","H","I","J","K","L","M",
               "N","O","P","Q","R","S","T","U","V","W","X","Y","Z">>

Digits == {"0","1","2","3","4","5","6","7","8","9"}

\* the characters Python's str.strip() and the regex class \s treat as space
Whitespace == {" ", "\t", "\n"}

\* the upper-case letter of every lower-case letter
ToUpper ==
    [c \in {LowerCase[i] : i \in 1..26} |->
        UpperCase[CHOOSE i \in 1..26 : LowerCase[i] = c]]

\* str(c).upper() on one character
UpperChar(c) == IF c \in DOMAIN ToUpper THEN ToUpper[c] ELSE c

\* t.upper() of a string value t
UpperOf(t) == [i \in 1..Len(t) |-> UpperChar(t[i])]

\* s.upper(), computed on the value of s
Upper(s) == CHOOSE r \in { UpperOf(t) : t \in {s} } : TRUE

\* s.replace(c, "") for a one-character c
RemoveChar(s, c) == SelectSeq(s, LAMBDA x : x # c)

\* s.strip()
RECURSIVE LStrip(_)
LStrip(s) ==
    IF s # << >> /\ Head(s) \in Whitespace THEN LStrip(Tail(s)) ELSE s

RECURSIVE RStrip(_)
RStrip(s) ==
    IF s # << >> /\ s[Len(s)] \in Whitespace
    THEN RStrip(SubSeq(s, 1, Len(s) - 1)) ELSE s

Strip(s) == RStrip(LStrip(s))

\* Python's  x in s  for strings
Contains(s, x) ==
    \E i \in 1..(Len(s) - Len(x) + 1) : SubSeq(s, i, i + Len(x) - 1) = x

\* Python truthiness of an Optional[str]
Truthy(s) == s # None /\ s # << >>

\* ------------------------------------------------------------------------
\* re.search(r"(ORD[-\s]?\d+)", text, re.IGNORECASE)
\* ------------------------------------------------------------------------

\* index of the last digit of the maximal digit run starting at i (i-1 if none)
RECURSIVE DigitRunEnd(_, _)
DigitRunEnd(s, i) ==
    IF i <= Len(s) /\ s[i] \in Digits THEN DigitRunEnd(s, i + 1) ELSE i - 1

\* end index of a match of the pattern that starts at i, or 0 when none
MatchEndAt(s, i) ==
    IF i + 2 <= Len(s) /\ Upper(SubSeq(s, i, i + 2)) = <<"O","R","D">>
    THEN LET j == i + 3 IN
         IF j <= Len(s) /\ s[j] \in ({"-"} \cup Whitespace)
               /\ DigitRunEnd(s, j + 1) >= j + 1
         THEN DigitRunEnd(s, j + 1)
         ELSE IF DigitRunEnd(s, j) >= j THEN DigitRunEnd(s, j) ELSE 0
    ELSE 0

\* match.group(1) of the leftmost match, or None
ReSearchORD(s) ==
    IF \E i \in 1..Len(s) : MatchEndAt(s, i) > 0
    THEN LET i == CHOOSE k \in 1..Len(s) :
                    /\ MatchEndAt(s, k) > 0
                    /\ \A m \in 1..(k - 1) : MatchEndAt(s, m) = 0
         IN SubSeq(s, i, MatchEndAt(s, i))
    ELSE None

\* NormalizeMatch without the upper-casing
NormalizeMatchKeepCase(m) == RemoveChar(RemoveChar(m, " "), "-")

\* match.group(1).upper().replace(" ", "").replace("-", "")
NormalizeMatch(m) == RemoveChar(RemoveChar(Upper(m), " "), "-")


\* ------------------------------------------------------------------------
\* Data the program loads at import time (mock_data/*.json)
\* ------------------------------------------------------------------------

\* get_issue_types(): the issue types of issues.json plus 'other'
IssueTypes ==
    {"defective_product", "damaged_item", "missing_item", "late_delivery",
     "wrong_item", "refund_request", "duplicate_charge", "other"}

\* orders.json: the stored order records (a sample; two ids are stored with a
\* separator so that formatting differences between stored and resolved ids
\* occur)
ORDERS ==
    << [order_id |-> <<"O","R","D","4","5","2","1">>, item |-> "Blender"],
       [order_id |-> <<"O","R","D","-","9">>,         item |-> "Kettle"],
       [order_id |-> <<"O","R","D"," ","7","7">>,     item |-> "Lamp"] >>

\* replies.json: the registered reply templates (a sample)
REPLIES ==
    << [issue_type |-> "damaged_item",   template |-> "tpl_damaged_item"],
       [issue_type |-> "refund_request", template |-> "tpl_refund_request"] >>

DefaultTemplate == "tpl_default"

\* ------------------------------------------------------------------------
\* app/utils.py
\* ------------------------------------------------------------------------

\* CleanId without the upper-casing
CleanIdKeepCase(x) == RemoveChar(RemoveChar(x, "-"), " ")

\* str(x).replace('-', '').replace(' ', '').upper()
CleanId(x) == Upper(RemoveChar(RemoveChar(x, "-"), " "))

\* the None of an Optional[Dict] order
NoOrder == [order_id |-> None, item |-> ""]

\* lookup_order(order_id): the first stored order whose cleaned id equals the
\* cleaned requested id, or None
lookup_order(order_id) ==
    IF ~Truthy(order_id) THEN NoOrder
    ELSE IF \E i \in 1..Len(ORDERS) : CleanId(ORDERS[i].order_id) = CleanId(order_id)
         THEN ORDERS[CHOOSE i \in 1..Len(ORDERS) :
                        /\ CleanId(ORDERS[i].order_id) = CleanId(order_id)
                        /\ \A k \in 1..(i - 1) :
                              CleanId(ORDERS[k].order_id) # CleanId(order_id)]
         ELSE NoOrder

\* get_reply_template that never finds a registered template
get_reply_templateDefaultOnly(issue_type) == DefaultTemplate

\* get_reply_template(issue_type)
get_reply_template(issue_type) ==
    IF \E i \in 1..Len(REPLIES) : REPLIES[i].issue_type = issue_type
    THEN REPLIES[CHOOSE i \in 1..Len(REPLIES) :
                    /\ REPLIES[i].issue_type = issue_type
                    /\ \A k \in 1..(i - 1) : REPLIES[k].issue_type # issue_type].template
    ELSE DefaultTemplate

\* ------------------------------------------------------------------------
\* app/graph.py: messages and the fetch_order tool
\* ------------------------------------------------------------------------

HumanMessage(content) ==
    [type |-> "human", content |-> content, name |-> "", tool_call_id |-> None]

ToolMessage(content, name, tool_call_id) ==
    [type |-> "tool", content |-> content, name |-> name,
     tool_call_id |-> tool_call_id]

AIMessage(content) ==
    [type |-> "ai", content |-> content, name |-> "", tool_call_id |-> None]

\* str(order_id): the text of a None is "None"
Str(x) == IF x = None THEN <<"N","o","n","e">> ELSE x

\* json.dumps(order), kept as one token per field
JsonDumps(order) == <<"{order_id:">> \o order.order_id \o <<",item:", order.item, "}">>

\* fetch_order_tool that reports a miss with an empty result
fetch_order_toolSilentMiss(order_id) ==
    IF lookup_order(order_id) # NoOrder
    THEN JsonDumps(lookup_order(order_id))
    ELSE << >>

\* fetch_order_tool(order_id)
fetch_order_tool(order_id) ==
    IF lookup_order(order_id) # NoOrder
    THEN JsonDumps(lookup_order(order_id))
    ELSE <<"Order ID ">> \o order_id \o <<" not found in the database.">>

\* ------------------------------------------------------------------------
\* app/graph.py: classify_node
\* ------------------------------------------------------------------------

Placeholders ==
    { <<"N","/","A">>, <<"N","O","N","E">>, <<"N","U","L","L">>,
      <<"N","O","T"," ","P","R","O","V","I","D","E","D">>,
      <<"U","N","K","N","O","W","N">> }

\* IsPlaceholder without the upper-casing
IsPlaceholderCaseSensitive(oid) ==
    \E x \in Placeholders : Contains(Strip(oid), x)

\* any(x in oid.strip().upper() for x in [...])
IsPlaceholder(oid) ==
    \E x \in Placeholders : Contains(Upper(Strip(oid)), x)

\* the last HumanMessage of the transcript, or None
LastHuman(messages) ==
    IF \E i \in 1..Len(messages) : messages[i].type = "human"
    THEN messages[CHOOSE i \in 1..Len(messages) :
                     /\ messages[i].type = "human"
                     /\ \A k \in (i + 1)..Len(messages) : messages[k].type # "human"].content
    ELSE None

\* text_to_analyze of classify_node
TextToAnalyze(state) ==
    IF ~Truthy(state.ticket_text) /\ state.messages # << >>
       /\ LastHuman(state.messages) # None
    THEN LastHuman(state.messages)
    ELSE state.ticket_text

\* ResolveOrderId with the id of the graph state tried before the text
ResolveOrderIdStateFirst(reported, text, state_oid) ==
    LET oid1 == IF Truthy(reported) /\ IsPlaceholder(reported) THEN None ELSE reported
        oid2 == IF ~Truthy(oid1) THEN state_oid ELSE oid1
    IN IF ~Truthy(oid2) /\ Truthy(text) /\ ReSearchORD(text) # None
       THEN NormalizeMatch(ReSearchORD(text))
       ELSE oid2

\* the order id classify_node returns, from the classifier-reported id, the
\* text to analyze and the order id already in the graph state
ResolveOrderId(reported, text, state_oid) ==
    LET oid1 == IF Truthy(reported) /\ IsPlaceholder(reported) THEN None ELSE reported
        oid2 == IF ~Truthy(oid1) /\ Truthy(text) /\ ReSearchORD(text) # None
                THEN NormalizeMatch(ReSearchORD(text))
                ELSE oid1
    IN IF ~Truthy(oid2) THEN state_oid ELSE oid2

\* model.with_structured_output(ClassificationOutput): the capability's
\* output is accepted only when it decodes and its issue type is a member of
\* the IssueType enumeration; otherwise the call raises
Validates(out) == out.kind = "ok" /\ out.issue_type \in IssueTypes

\* route_ticket that never asks for the lookup
route_ticketNoLookup(state) == "draft_reply"

\* route_ticket(state)
route_ticket(state) ==
    IF Truthy(state.order_id) THEN "fetch_order" ELSE "draft_reply"

\* the prompt draft_reply_node builds
DraftPrompt(state) ==
    IF ~Truthy(state.order_id)
    THEN [mode |-> "ask_order_id", issue_type |-> state.issue_type,
          order_id |-> None, template |-> "",
          user_input |-> IF LastHuman(state.messages) # None
                         THEN LastHuman(state.messages) ELSE <<"Unknown">>]
    ELSE [mode |-> "template", issue_type |-> state.issue_type,
          order_id |-> state.order_id,
          template |-> get_reply_template(state.issue_type),
          user_input |-> IF LastHuman(state.messages) # None
                         THEN LastHuman(state.messages) ELSE <<"Unknown">>]


\* ------------------------------------------------------------------------
\* Bounds and the inputs the requests and the capabilities are drawn from
\* ------------------------------------------------------------------------

\* number of requests submitted in one behaviour
MaxTurns == 2

\* an absent issue_type key of the graph state
NoIssue == "<none>"

TextA == <<"M","y"," ","o","r","d","e","r"," ","O","R","D","-","4","5","2","1",
           " ","a","r","r","i","v","e","d"," ","b","r","o","k","e","n">>
TextC == <<"H","o","w"," ","l","o","n","g","?">>
TextD == <<"o","r","d"," ","7","8"," ","i","s"," ","l","a","t","e">>

IdDash4521 == <<"O","R","D","-","4","5","2","1">>
Id9        == <<"O","R","D","9">>
IdLower77  == <<"o","r","d","-","7","7">>
ConvT1     == <<"t","1">>

\* request bodies (TriageInput): ticket_text, order_id, conversation_id
Body(t, o, c) == [ticket_text |-> t, order_id |-> o, conversation_id |-> c]

Bodies ==
    { Body(t, o, c) : t \in {TextA, TextC, TextD},
                      o \in {None, IdLower77},
                      c \in {None, ConvT1} }
    \cup { Body(TextC, << >>, None), Body(TextC, None, << >>) }

\* ids the classification capability may report
ReportedIds ==
    { None, << >>, IdDash4521, Id9,
      <<"n","/","a">>, <<" ","U","n","k","n","o","w","n"," ">>,
      <<"O","R","D","N","O","N","E","1">> }

\* what the classification capability may hand back: a decoded output (whose
\* issue type may lie outside the enumeration), undecodable output, or a
\* failure of the call
ClassifierOutputs ==
    { [kind |-> "ok", issue_type |-> "damaged_item", order_id |-> o] :
          o \in ReportedIds }
    \cup { [kind |-> "ok", issue_type |-> i, order_id |-> None] :
          i \in {"late_delivery", "billing_dispute"} }
    \cup { [kind |-> "undecodable", issue_type |-> NoIssue, order_id |-> None],
           [kind |-> "failure",     issue_type |-> NoIssue, order_id |-> None] }

\* reply texts the drafting capability may produce
ReplyTexts == { <<"reply-1">>, <<"reply-2">> }

\* str(uuid.uuid4()): the n-th generated id; generated ids are pairwise
\* distinct and differ from every caller-chosen string
Uuid4(n) == <<"uuid4">> \o [i \in 1..n |-> "#"]


\* ------------------------------------------------------------------------
\* State
\* ------------------------------------------------------------------------

\* the request handlers that may be in flight at once
Workers == {"w1", "w2"}

VARIABLES
    turn,      \* per handler: its position and locals (see IdleTurn)
    sessions,  \* the checkpointer's store: thread id -> saved graph state
    uuids,     \* number of uuid4 ids generated so far
    turns,     \* number of requests submitted so far
    threads,   \* thread ids of the requests submitted so far
    prevOk,    \* the last request answered successfully: thread id, order id
    probe      \* an id pair put through the normalizations on their own

vars == <<turn, sessions, uuids, turns, threads, prevOk, probe>>

\* AgentState with no key set
EmptyState ==
    [ticket_text |-> None, messages |-> << >>, issue_type |-> NoIssue,
     order_id |-> None]

NoOutput == [kind |-> "none", issue_type |-> NoIssue, order_id |-> None]

NoPrompt ==
    [mode |-> "none", issue_type |-> NoIssue, order_id |-> None,
     template |-> "", user_input |-> None]

NoResult ==
    [status |-> 0, order_id |-> None, issue_type |-> NoIssue,
     order |-> NoOrder, reply_text |-> None]

NoPrev == [thread_id |-> None, order_id |-> None]

\* no id is being put through the normalizations
NoProbe == [fn |-> "", x |-> None, y |-> None, nx |-> None, ny |-> None,
            nnx |-> None]

NoClassified == [issue_type |-> NoIssue, order_id |-> None]

NoLookup == [requested |-> None, order |-> NoOrder]

IdleTurn ==
    [pc        |-> "idle",       \* idle, classify, fetch_order, draft_reply, END, done
     endpoint  |-> "",           \* "main" (app/main.py) or "manual" (app/server.py)
     body      |-> Body(None, None, None),
     thread_id |-> None,
     earlier   |-> {},           \* thread ids of the requests before this one
     session0  |-> EmptyState,   \* the thread's saved session when the turn began
     input     |-> EmptyState,   \* the graph state the invocation started from
     state     |-> EmptyState,   \* the graph state of this invocation
     output    |-> NoOutput,     \* what the classification capability returned
     classified |-> NoClassified, \* what classify_node returned
     lookup    |-> NoLookup,     \* what fetch_order_node asked lookup_order, and got
     visited   |-> << >>,        \* the nodes invoked so far, in order
     failed    |-> "",           \* the node whose capability call raised, if any
     prompt    |-> NoPrompt,     \* the prompt draft_reply_node built
     result    |-> NoResult]     \* the HTTP response

Init ==
    /\ turn = [w \in Workers |-> IdleTurn]
    /\ sessions = {}
    /\ uuids = 0
    /\ turns = 0
    /\ threads = {}
    /\ prevOk = NoPrev
    /\ probe = NoProbe

\* ------------------------------------------------------------------------
\* app/main.py: triage_invoke, up to graph.ainvoke
\* ------------------------------------------------------------------------

\* DerivedThreadId with the explicit order id tried before the conversation id
DerivedThreadIdOrderFirst(body) ==
    LET t1 == IF Truthy(body.order_id) THEN body.order_id ELSE None
        t2 == IF ~Truthy(t1) THEN body.conversation_id ELSE t1
    IN IF ~Truthy(t2) /\ ReSearchORD(body.ticket_text) # None
       THEN NormalizeMatch(ReSearchORD(body.ticket_text))
       ELSE t2

\* the thread id before the uuid fallback (None when no source gives one)
DerivedThreadId(body) ==
    LET t1 == body.conversation_id
        t2 == IF ~Truthy(t1) /\ Truthy(body.order_id) THEN body.order_id ELSE t1
    IN IF ~Truthy(t2) /\ ReSearchORD(body.ticket_text) # None
       THEN NormalizeMatch(ReSearchORD(body.ticket_text))
       ELSE t2

\* the graph input of triage_invoke
MainInputs(body) ==
    [ticket_text |-> body.ticket_text,
     messages    |-> <<HumanMessage(body.ticket_text)>>,
     issue_type  |-> NoIssue,
     order_id    |-> IF Truthy(body.order_id) THEN body.order_id ELSE None]

\* the graph input of triage_invoke_manual
ManualInputs(body) ==
    [ticket_text |-> body.ticket_text,
     messages    |-> << >>,
     issue_type  |-> NoIssue,
     order_id    |-> IF Truthy(body.order_id) THEN body.order_id ELSE None]

\* the saved session of a thread, EmptyState when it has none
SessionOf(thread_id) ==
    IF \E e \in sessions : e.thread_id = thread_id
    THEN (CHOOSE e \in sessions : e.thread_id = thread_id).state
    ELSE EmptyState

\* InitialState of a graph that keeps one memory for the whole process: an
\* input without an order id starts from the id of the last answered request
InitialStateSharedMemory(thread_id, inputs) ==
    [inputs EXCEPT !.order_id = IF Truthy(@) THEN @ ELSE prevOk.order_id]

\* builder.compile() is given no checkpointer: an invocation starts from its
\* input alone, whatever the thread id, and no node's result is saved
InitialState(thread_id, inputs) == inputs

\* ErrorResult of a handler that swallows the exception and answers anyway
ErrorResultSwallowed ==
    [status |-> 200, order_id |-> None, issue_type |-> "other",
     order |-> NoOrder, reply_text |-> <<"Agent Error">>]

\* the response of a request whose graph invocation raised
ErrorResult ==
    [status |-> 500, order_id |-> None, issue_type |-> NoIssue,
     order |-> NoOrder, reply_text |-> None]

TriageInvoke(w, bodies) ==
    /\ turn[w].pc \in {"idle", "done"}
    /\ turns < MaxTurns
    /\ \E body \in bodies :
         LET derived == DerivedThreadId(body)
             fresh   == ~Truthy(derived)
             tid     == IF fresh THEN Uuid4(uuids + 1) ELSE derived
         IN /\ turn' = [turn EXCEPT ![w] =
                  [IdleTurn EXCEPT !.pc = "classify", !.endpoint = "main",
                                   !.body = body, !.thread_id = tid,
                                   !.earlier = threads,
                                   !.session0 = SessionOf(tid),
                                   !.input = InitialState(tid, MainInputs(body)),
                                   !.state = InitialState(tid, MainInputs(body))]]
            /\ uuids' = IF fresh THEN uuids + 1 ELSE uuids
            /\ threads' = threads \cup {tid}
    /\ turns' = turns + 1
    /\ UNCHANGED <<sessions, prevOk, probe>>

\* ------------------------------------------------------------------------
\* app/server.py: triage_invoke_manual, up to graph.ainvoke
\* ------------------------------------------------------------------------

AssessmentThread == <<"assessment_mode">>

TriageInvokeManual(w, bodies) ==
    /\ turn[w].pc \in {"idle", "done"}
    /\ turns < MaxTurns
    /\ \E body \in bodies :
         /\ body.conversation_id = None
         /\ turn' = [turn EXCEPT ![w] =
               [IdleTurn EXCEPT !.pc = "classify", !.endpoint = "manual",
                                !.body = body, !.thread_id = AssessmentThread,
                                !.earlier = threads,
                                !.session0 = SessionOf(AssessmentThread),
                                !.input = InitialState(AssessmentThread,
                                                       ManualInputs(body)),
                                !.state = InitialState(AssessmentThread,
                                                       ManualInputs(body))]]
    /\ threads' = threads \cup {AssessmentThread}
    /\ turns' = turns + 1
    /\ UNCHANGED <<sessions, uuids, prevOk, probe>>

\* ------------------------------------------------------------------------
\* app/graph.py: the nodes
\* ------------------------------------------------------------------------

\* an exception raised inside graph.ainvoke ends the request with a 500
Raise(w, node) ==
    turn' = [turn EXCEPT ![w].pc = "done",
                         ![w].visited = Append(@, node),
                         ![w].failed = node,
                         ![w].result = ErrorResult]

\* the state classify_node hands on: its update merged into the state
ClassifiedState(st, out) ==
    [st EXCEPT !.issue_type = out.issue_type,
               !.order_id = ResolveOrderId(out.order_id, TextToAnalyze(st),
                                           st.order_id)]

\* classify_node has returned new; the conditional edge picks the next node
ClassifyReturn(w, out, new) ==
    turn' = [turn EXCEPT ![w].state = new,
                         ![w].output = out,
                         ![w].classified = [issue_type |-> new.issue_type,
                                            order_id   |-> new.order_id],
                         ![w].visited = Append(@, "classify"),
                         ![w].pc = route_ticket(new)]

ClassifyNode(w, outputs) ==
    /\ turn[w].pc = "classify"
    /\ \E out \in outputs :
         \/ /\ Validates(out)
            /\ ClassifyReturn(w, out, ClassifiedState(turn[w].state, out))
         \/ /\ ~Validates(out)
            /\ turn' = [turn EXCEPT ![w].pc = "done",
                                    ![w].output = out,
                                    ![w].visited = Append(@, "classify"),
                                    ![w].failed = "classify",
                                    ![w].result = ErrorResult]
    /\ UNCHANGED <<sessions, uuids, turns, threads, prevOk, probe>>

\* fetch_order_node has looked up oid; the graph goes on to the node next
FetchOrderReturn(w, oid, next) ==
    turn' = [turn EXCEPT
               ![w].state.messages =
                   Append(@, ToolMessage(fetch_order_tool(oid), "fetch_order",
                                         <<"call_">> \o oid)),
               ![w].lookup = [requested |-> oid, order |-> lookup_order(oid)],
               ![w].visited = Append(@, "fetch_order"),
               ![w].pc = next]

\* fetch_order_node in a graph whose lookup edge leads to END
FetchOrderNodeSkipsDraft(w) ==
    /\ turn[w].pc = "fetch_order"
    /\ \/ Raise(w, "fetch_order")
       \/ FetchOrderReturn(w, Str(turn[w].state.order_id), "END")
    /\ UNCHANGED <<sessions, uuids, turns, threads, prevOk, probe>>

FetchOrderNode(w) ==
    /\ turn[w].pc = "fetch_order"
    /\ \/ Raise(w, "fetch_order")
       \/ FetchOrderReturn(w, Str(turn[w].state.order_id), "draft_reply")
    /\ UNCHANGED <<sessions, uuids, turns, threads, prevOk, probe>>

DraftReplyNode(w) ==
    /\ turn[w].pc = "draft_reply"
    /\ \/ Raise(w, "draft_reply")
       \/ \E reply \in ReplyTexts :
            turn' = [turn EXCEPT
                       ![w].prompt = DraftPrompt(turn[w].state),
                       ![w].state.messages = Append(@, AIMessage(reply)),
                       ![w].visited = Append(@, "draft_reply"),
                       ![w].pc = "END"]
    /\ UNCHANGED <<sessions, uuids, turns, threads, prevOk, probe>>

\* ------------------------------------------------------------------------
\* the handlers after graph.ainvoke has returned
\* ------------------------------------------------------------------------

\* next((o for o in ORDERS if o["order_id"] == agent_oid), None)
HydrateOrder(agent_oid) ==
    IF \E i \in 1..Len(ORDERS) : ORDERS[i].order_id = agent_oid
    THEN ORDERS[CHOOSE i \in 1..Len(ORDERS) :
                   /\ ORDERS[i].order_id = agent_oid
                   /\ \A k \in 1..(i - 1) : ORDERS[k].order_id # agent_oid]
    ELSE NoOrder

\* MainResult that returns the order id in its cleaned form
MainResultCleanId(final_state) ==
    [status     |-> 200,
     order_id   |-> IF Truthy(final_state.order_id)
                    THEN CleanId(final_state.order_id)
                    ELSE final_state.order_id,
     issue_type |-> IF final_state.issue_type = NoIssue THEN "other"
                    ELSE final_state.issue_type,
     order      |-> IF Truthy(final_state.order_id)
                    THEN HydrateOrder(final_state.order_id) ELSE NoOrder,
     reply_text |-> final_state.messages[Len(final_state.messages)].content]

\* the response of triage_invoke
MainResult(final_state) ==
    [status     |-> 200,
     order_id   |-> final_state.order_id,
     issue_type |-> IF final_state.issue_type = NoIssue THEN "other"
                    ELSE final_state.issue_type,
     order      |-> IF Truthy(final_state.order_id)
                    THEN HydrateOrder(final_state.order_id) ELSE NoOrder,
     reply_text |-> final_state.messages[Len(final_state.messages)].content]

\* the response of triage_invoke_manual
ManualResult(final_state) ==
    [status     |-> 200,
     order_id   |-> final_state.order_id,
     issue_type |-> final_state.issue_type,
     order      |-> HydrateOrder(final_state.order_id),
     reply_text |-> final_state.messages[Len(final_state.messages)].content]

FormatOutput(w) ==
    /\ turn[w].pc = "END"
    /\ turn' = [turn EXCEPT
                  ![w].pc = "done",
                  ![w].result = IF turn[w].endpoint = "main"
                                THEN MainResult(turn[w].state)
                                ELSE ManualResult(turn[w].state)]
    /\ prevOk' = [thread_id |-> turn[w].thread_id,
                  order_id  |-> turn[w].state.order_id]
    /\ UNCHANGED <<sessions, uuids, turns, threads, probe>>

\* ------------------------------------------------------------------------
\* Specifications
\* ------------------------------------------------------------------------

Step(w, bodies, outputs) ==
    \/ TriageInvoke(w, bodies)
    \/ TriageInvokeManual(w, bodies)
    \/ ClassifyNode(w, outputs)
    \/ FetchOrderNode(w)
    \/ DraftReplyNode(w)
    \/ FormatOutput(w)

\* requests handled one after the other
Next == Step("w1", Bodies, ClassifierOutputs)

Spec == Init /\ [][Next]_vars

\* two handlers in flight at once (the handlers are coroutines of one event
\* loop and suspend at graph.ainvoke), over a smaller choice of inputs
ConcBodies ==
    { Body(TextA, None, ConvT1), Body(TextC, None, ConvT1),
      Body(TextC, None, None), Body(TextC, IdLower77, None) }

ConcOutputs ==
    { [kind |-> "ok", issue_type |-> "damaged_item", order_id |-> None],
      [kind |-> "ok", issue_type |-> "late_delivery", order_id |-> Id9],
      [kind |-> "failure", issue_type |-> NoIssue, order_id |-> None] }

NextConc == \E w \in Workers : Step(w, ConcBodies, ConcOutputs)

SpecConc == Init /\ [][NextConc]_vars

\* one handler, whose nodes graph.ainvoke runs once they are scheduled and
\* whose coroutine the event loop resumes once the awaited call has returned;
\* a new request may never come
Fairness ==
    /\ WF_vars(ClassifyNode("w1", ConcOutputs))
    /\ WF_vars(FetchOrderNode("w1"))
    /\ WF_vars(DraftReplyNode("w1"))
    /\ WF_vars(FormatOutput("w1"))

NextLive == Step("w1", ConcBodies, ConcOutputs)

SpecLive == Init /\ [][NextLive]_vars /\ Fairness


\* ------------------------------------------------------------------------
\* Vocabulary of the properties
\* ------------------------------------------------------------------------

\* classification of the turn has run and returned
Classified(w) == turn[w].visited # << >> /\ turn[w].failed # "classify"

\* the id is, after trimming and upper-casing, a member of the placeholder set
IsPlaceholderToken(oid) == Upper(Strip(oid)) \in Placeholders

\* the classifier reported no id or a placeholder
NoIdReported(oid) == ~Truthy(oid) \/ IsPlaceholderToken(oid)

\* no dash, no space, all upper-case
IsNormalized(oid) ==
    /\ Upper(oid) = oid
    /\ \A i \in 1..Len(oid) : oid[i] \notin {"-", " "}

\* the read-modify-write cycle of a turn: from the start of the graph
\* invocation until it has returned
InCycle(w) == turn[w].pc \in {"classify", "fetch_order", "draft_reply"}

\* ------------------------------------------------------------------------
\* Properties
\* ------------------------------------------------------------------------

\* C1: a successful turn on the thread of the previous successful turn that
\* carries no new id information (nothing usable from the classifier, no ORD
\* pattern in the text, no explicit order id) resolves the order id the
\* previous turn resolved.
SessionContinuity ==
    \A w \in Workers :
        ( /\ turn[w].pc = "END"
          /\ prevOk.thread_id = turn[w].thread_id
          /\ NoIdReported(turn[w].output.order_id)
          /\ ReSearchORD(turn[w].body.ticket_text) = None
          /\ ~Truthy(turn[w].body.order_id) )
        => turn[w].state.order_id = prevOk.order_id

\* C2: when the classifier reports an id that is present and not a
\* placeholder token, the resolved id is that id, also when the text holds an
\* ORD pattern or the graph state already held an order id.
ResolverPrecedence ==
    \A w \in Workers :
        ( /\ Classified(w)
          /\ Truthy(turn[w].output.order_id)
          /\ ~IsPlaceholderToken(turn[w].output.order_id) )
        => turn[w].state.order_id = turn[w].output.order_id

\* C3: the order id a turn resolves is absent or normalized (no dash, no
\* space, upper-case), whichever source it came from.
ResolvedIdNormalized ==
    \A w \in Workers :
        Classified(w) =>
            \/ turn[w].state.order_id = None
            \/ IsNormalized(turn[w].state.order_id)

\* C4: a reported id that is a placeholder token resolves exactly as no
\* reported id does on the same text and the same prior order id; with no ORD
\* pattern in the text and no prior id the resolved id is absent.
PlaceholderRejection ==
    \A w \in Workers :
        ( /\ Classified(w)
          /\ Truthy(turn[w].output.order_id)
          /\ IsPlaceholderToken(turn[w].output.order_id) )
        => /\ turn[w].state.order_id =
                 ResolveOrderId(None, TextToAnalyze(turn[w].input),
                                turn[w].input.order_id)
           /\ ( /\ ReSearchORD(TextToAnalyze(turn[w].input)) = None
                /\ ~Truthy(turn[w].input.order_id)
                /\ ~Truthy(turn[w].session0.order_id) )
              => turn[w].state.order_id = None

PlaceholderRejectionWitness ==
    \E w \in Workers :
        /\ Classified(w)
        /\ turn[w].output.order_id = <<" ","U","n","k","n","o","w","n"," ">>
        /\ ReSearchORD(TextToAnalyze(turn[w].input)) = None
        /\ turn[w].state.order_id = None

\* C5: classify_node's placeholder test counts a reported id as a
\* placeholder only when the id is, after trimming and upper-casing, equal to
\* a member of the placeholder set; an id that merely contains such a token
\* is not counted.
PlaceholderExactMatch ==
    \A w \in Workers :
        ( /\ Classified(w)
          /\ Truthy(turn[w].output.order_id)
          /\ IsPlaceholder(turn[w].output.order_id) )
        => IsPlaceholderToken(turn[w].output.order_id)

\* C6: with a resolved order id the lookup node is invoked after
\* classification and before drafting; without one drafting follows
\* classification directly and the lookup node is never invoked.
RouterCorrectness ==
    \A w \in Workers :
        Classified(w) =>
            IF Truthy(turn[w].state.order_id)
            THEN \/ turn[w].visited = <<"classify">> /\ turn[w].pc = "fetch_order"
                 \/ turn[w].visited = <<"classify", "fetch_order">>
                      /\ turn[w].pc \in {"draft_reply", "done"}
                 \/ turn[w].visited = <<"classify", "fetch_order", "draft_reply">>
                      /\ turn[w].pc \in {"END", "done"}
            ELSE \/ turn[w].visited = <<"classify">> /\ turn[w].pc = "draft_reply"
                 \/ turn[w].visited = <<"classify", "draft_reply">>
                      /\ turn[w].pc \in {"END", "done"}

RouterCorrectnessWitness ==
    \E w \in Workers :
        /\ turn[w].visited = <<"classify", "fetch_order", "draft_reply">>
        /\ turn[w].pc = "END"
        /\ Truthy(turn[w].state.order_id)

\* C7: two turns of the same thread id are never inside their
\* read-modify-write cycle at the same time.
PerThreadSerialization ==
    \A w1, w2 \in Workers :
        (w1 # w2 /\ InCycle(w1) /\ InCycle(w2))
        => turn[w1].thread_id # turn[w2].thread_id

UnrecognizedFallsBackToOther ==
    \A w \in Workers :
        ( \/ turn[w].output.kind = "undecodable"
          \/ turn[w].output.kind = "ok" /\ turn[w].output.issue_type \notin IssueTypes )
        => /\ turn[w].failed = ""
           /\ turn[w].pc = "done" =>
                 /\ turn[w].result.status = 200
                 /\ turn[w].result.issue_type = "other"
                 /\ turn[w].result.reply_text # None

NotSeparator(c) == c \notin {"-", " "}

\* an order id with every dash and space removed, upper-cased
Normalize(x) == Upper(SelectSeq(x, NotSeparator))

\* some stored order has the requested id up to normalization
Stored(req) ==
    \E i \in 1..Len(ORDERS) : Normalize(ORDERS[i].order_id) = Normalize(req)

\* C11: the order record of a successful response is the record the lookup
\* step of the turn found, and null when the lookup did not run or missed.
ResponseOrderAgreesWithLookup ==
    \A w \in Workers :
        (turn[w].pc = "done" /\ turn[w].result.status = 200)
        => turn[w].result.order = turn[w].lookup.order

\* C12: lookup_order returns a stored order whose id equals the requested id
\* after normalization whenever there is one, and not-found only when there
\* is none.
LookupMatchesNormalized ==
    \A w \in Workers :
        turn[w].lookup.requested # None =>
            LET req == turn[w].lookup.requested
                rec == turn[w].lookup.order
            IN IF Stored(req)
               THEN /\ \E i \in 1..Len(ORDERS) : ORDERS[i] = rec
                    /\ Normalize(rec.order_id) = Normalize(req)
               ELSE rec = NoOrder

LookupMatchesNormalizedWitness ==
    \E w \in Workers :
        /\ turn[w].lookup.requested = <<"o","r","d","-","7","7">>
        /\ turn[w].lookup.order.order_id = <<"O","R","D"," ","7","7">>


\* ------------------------------------------------------------------------
\* The two normalizations on their own: graph.py:69 and utils.py:22-25
\* ------------------------------------------------------------------------

\* longest id put through the normalizations
MaxIdLen == 3

IdAlphabet == {"o", "R", "1", "-", " "}

ProbeIds == UNION { [1..k -> IdAlphabet] : k \in 0..MaxIdLen }

\* the other case of a letter
SwapCase(c) ==
    IF \E i \in 1..26 : LowerCase[i] = c
    THEN UpperCase[CHOOSE i \in 1..26 : LowerCase[i] = c]
    ELSE IF \E i \in 1..26 : UpperCase[i] = c
         THEN LowerCase[CHOOSE i \in 1..26 : UpperCase[i] = c]
         ELSE c

\* the ids that differ from x by one dash or space more or less, or by the
\* case of one letter
Variants(x) ==
    { SubSeq(x, 1, i) \o <<c>> \o SubSeq(x, i + 1, Len(x)) :
          i \in 0..Len(x), c \in {"-", " "} }
    \cup { SubSeq(x, 1, i - 1) \o SubSeq(x, i + 1, Len(x)) :
          i \in { k \in 1..Len(x) : x[k] \in {"-", " "} } }
    \cup { [x EXCEPT ![i] = SwapCase(x[i])] : i \in 1..Len(x) }

IdDash123  == <<"O","R","D","-","1","2","3">>
IdSpace123 == <<"o","r","d"," ","1","2","3">>

\* the pairs put through: an id with itself or with one of its variants
ProbePairs ==
    UNION { { <<x, y>> : y \in { v \in Variants(x) : Len(v) <= MaxIdLen } \cup {x} } :
            x \in ProbeIds }
    \cup { <<IdDash123, IdSpace123>> }

\* the normalization named fn
NormalizeBy(fn, x) == IF fn = "graph" THEN NormalizeMatch(x) ELSE CleanId(x)

InitNormalize ==
    /\ turn = [w \in Workers |-> IdleTurn]
    /\ sessions = {}
    /\ uuids = 0
    /\ turns = 0
    /\ threads = {}
    /\ prevOk = NoPrev
    /\ \E p \in ProbePairs, fn \in {"graph", "utils"} :
         probe = [NoProbe EXCEPT !.fn = fn, !.x = p[1], !.y = p[2]]

NormalizeOnce ==
    /\ probe.nx = None
    /\ probe' = [probe EXCEPT !.nx = NormalizeBy(probe.fn, probe.x),
                              !.ny = NormalizeBy(probe.fn, probe.y)]
    /\ UNCHANGED <<turn, sessions, uuids, turns, threads, prevOk>>

NormalizeAgain ==
    /\ probe.nx # None
    /\ probe.nnx = None
    /\ probe' = [probe EXCEPT !.nnx = NormalizeBy(probe.fn, probe.nx)]
    /\ UNCHANGED <<turn, sessions, uuids, turns, threads, prevOk>>

NextNormalize == NormalizeOnce \/ NormalizeAgain

SpecNormalize == InitNormalize /\ [][NextNormalize]_vars

\* C13: normalizing a normalized id changes nothing, and two ids that differ
\* only in case, dashes or spaces normalize to the same id (ORD-123 and
\* ord 123 to ORD123).
NormalizeIdempotentFormatInsensitive ==
    /\ probe.nnx # None => probe.nnx = probe.nx
    /\ probe.nx # None =>
          /\ probe.nx = probe.ny
          /\ probe.x = IdDash123 => probe.nx = <<"O","R","D","1","2","3">>

NormalizeWitness ==
    /\ probe.x = IdDash123
    /\ probe.y = IdSpace123
    /\ probe.nnx = <<"O","R","D","1","2","3">>


\* ------------------------------------------------------------------------
\* Properties of the resolver, the transcript and the nodes
\* ------------------------------------------------------------------------

\* C14: when the classifier reports no id or a placeholder, the resolved id
\* is the normalized ORD pattern of the ticket text if there is one, whatever
\* id the graph state held before the turn; without a pattern it is the id the
\* graph state held before the turn, absent when that is absent.
ResolverFallbackOrder ==
    \A w \in Workers :
        (Classified(w) /\ NoIdReported(turn[w].output.order_id)) =>
            IF ReSearchORD(turn[w].body.ticket_text) # None
            THEN turn[w].classified.order_id =
                     Normalize(ReSearchORD(turn[w].body.ticket_text))
            ELSE turn[w].classified.order_id = turn[w].input.order_id

ResolverFallbackOrderWitness ==
    \E w \in Workers :
        /\ Classified(w)
        /\ turn[w].output.order_id = <<"n","/","a">>
        /\ turn[w].body.ticket_text = TextA
        /\ turn[w].input.order_id = IdLower77
        /\ turn[w].classified.order_id = <<"O","R","D","4","5","2","1">>


IsPrefix(a, b) == Len(a) <= Len(b) /\ SubSeq(b, 1, Len(a)) = a

\* C15: every step leaves the transcript of a thread (that of its turn in
\* progress or of its last turn, when no call of that turn failed) as a
\* prefix of the transcript after the step.
TranscriptAppendOnly ==
    [][ \A w \in Workers :
          ( /\ turn[w].thread_id # None
            /\ turn[w].failed = ""
            /\ turn'[w].thread_id = turn[w].thread_id )
          => IsPrefix(turn[w].state.messages, turn'[w].state.messages) ]_vars

\* the positions of the tool-result entries of a transcript
ToolEntries(messages) == { i \in 1..Len(messages) : messages[i].type = "tool" }

\* C16: a turn whose lookup step has run holds exactly one tool-result entry
\* (none otherwise): the serialized record when the order is stored, a
\* not-found message naming the id when it is not; after a miss the turn goes
\* on to drafting and, the drafting call returning, answers with a reply.
LookupAppendsOneEntry ==
    \A w \in Workers :
        LET msgs  == turn[w].state.messages
            tools == ToolEntries(msgs)
            req   == turn[w].lookup.requested
        IN IF req = None
           THEN tools = {}
           ELSE /\ Cardinality(tools) = 1
                /\ \A i \in tools :
                     /\ msgs[i].name = "fetch_order"
                     /\ msgs[i].content =
                           IF Stored(req)
                           THEN JsonDumps(turn[w].lookup.order)
                           ELSE <<"Order ID ">> \o req
                                    \o <<" not found in the database.">>
                /\ ~Stored(req) =>
                     /\ turn[w].pc \in {"draft_reply", "END", "done"}
                     /\ turn[w].failed \in {"", "draft_reply"}
                     /\ (turn[w].pc = "done" /\ turn[w].failed = "") =>
                           /\ turn[w].result.status = 200
                           /\ turn[w].result.reply_text \in ReplyTexts

LookupAppendsOneEntryWitness ==
    \E w \in Workers :
        /\ turn[w].lookup.requested = <<"O","R","D","7","8">>
        /\ turn[w].lookup.order = NoOrder
        /\ turn[w].pc = "done"
        /\ turn[w].result.status = 200


\* C17: draft_reply_node builds the ask-for-the-order-id prompt exactly when
\* the turn resolved no order id, and otherwise the template prompt with the
\* template registered for the issue type, or the default template when none
\* is registered; a turn without an order id is not failed for that.
DraftingModeSelection ==
    \A w \in Workers :
        /\ turn[w].prompt.mode # "none" =>
              IF ~Truthy(turn[w].classified.order_id)
              THEN turn[w].prompt.mode = "ask_order_id"
              ELSE /\ turn[w].prompt.mode = "template"
                   /\ IF \E i \in 1..Len(REPLIES) :
                             REPLIES[i].issue_type = turn[w].classified.issue_type
                      THEN \E i \in 1..Len(REPLIES) :
                             /\ REPLIES[i].issue_type = turn[w].classified.issue_type
                             /\ turn[w].prompt.template = REPLIES[i].template
                      ELSE turn[w].prompt.template = DefaultTemplate
        /\ (Classified(w) /\ ~Truthy(turn[w].classified.order_id)) =>
              /\ turn[w].failed \in {"", "draft_reply"}
              /\ (turn[w].pc = "done" /\ turn[w].failed = "") =>
                    turn[w].result.status = 200

DraftingModeSelectionWitness ==
    \E w \in Workers :
        /\ turn[w].prompt.mode = "template"
        /\ turn[w].classified.issue_type = "damaged_item"
        /\ turn[w].prompt.template = "tpl_damaged_item"
        /\ turn[w].pc = "END"


\* the number of visits of a node in the turn of handler w
Visits(w, node) ==
    Cardinality({ i \in 1..Len(turn[w].visited) : turn[w].visited[i] = node })

\* the pipeline of a turn never enters a node twice, and a turn answered
\* with a reply went classify, fetch_order at most once, draft_reply, and
\* returns the content of the agent message that ends its transcript
PipelineShape ==
    \A w \in Workers :
        /\ \A node \in {"classify", "fetch_order", "draft_reply"} :
              Visits(w, node) <= 1
        /\ (turn[w].pc = "done" /\ turn[w].result.status = 200) =>
              LET messages == turn[w].state.messages
              IN /\ turn[w].visited \in
                        { <<"classify", "draft_reply">>,
                          <<"classify", "fetch_order", "draft_reply">> }
                 /\ messages[Len(messages)].type = "ai"
                 /\ turn[w].result.reply_text = messages[Len(messages)].content
                 /\ turn[w].result.reply_text \in ReplyTexts

\* C18: every turn terminates (a turn in flight is eventually answered), its
\* pipeline visits classify once, fetch_order at most once and draft_reply
\* exactly once without a loop, and the agent message drafted last is the
\* last transcript entry and the reply text returned.
TurnTerminates ==
    /\ []PipelineShape
    /\ \A w \in Workers :
          (turn[w].pc \notin {"idle", "done"}) ~> (turn[w].pc = "done")

TurnTerminatesWitness ==
    \E w \in Workers :
        /\ turn[w].pc = "done"
        /\ turn[w].result.status = 200
        /\ turn[w].visited = <<"classify", "fetch_order", "draft_reply">>
        /\ turn[w].result.reply_text = <<"reply-2">>


\* the graph input built from the request of handler w alone
OwnInputs(w) ==
    IF turn[w].endpoint = "main" THEN MainInputs(turn[w].body)
    ELSE ManualInputs(turn[w].body)

\* a turn on a thread no earlier request addressed starts from, and resolves
\* its order id from, its own request and its own classification only
IsolatedRead ==
    \A w \in Workers :
        (turn[w].pc # "idle" /\ turn[w].thread_id \notin turn[w].earlier) =>
            /\ turn[w].input = OwnInputs(w)
            /\ turn[w].session0 = EmptyState
            /\ Classified(w) =>
                 turn[w].classified.order_id =
                     ResolveOrderId(turn[w].output.order_id,
                                    TextToAnalyze(OwnInputs(w)),
                                    OwnInputs(w).order_id)

\* a step changes the saved session of no thread other than those of the
\* handlers that took it
IsolatedWrite ==
    \A t \in threads :
        (\A w \in Workers : turn'[w] # turn[w] => turn'[w].thread_id # t)
            => SessionOf(t)' = SessionOf(t)

\* C19: a turn never reads or changes the session of another thread id: the
\* order id resolved on a thread does not depend on the turns of other
\* threads, with or without a conversation id in the request, and also when
\* turns of different threads are in flight together.
SessionIsolation == []IsolatedRead /\ [][IsolatedWrite]_vars

SessionIsolationWitness ==
    \E w1, w2 \in Workers :
        /\ w1 # w2
        /\ turn[w1].thread_id # turn[w2].thread_id
        /\ turn[w1].endpoint = "main" /\ turn[w2].endpoint = "main"
        /\ turn[w1].body.conversation_id = None
        /\ turn[w2].body.conversation_id # None
        /\ turn[w1].thread_id \notin turn[w1].earlier
        /\ turn[w2].pc \in {"fetch_order", "draft_reply", "END", "done"}
        /\ Truthy(turn[w2].classified.order_id)
        /\ turn[w1].pc = "draft_reply"
        /\ turn[w1].classified.order_id = None


\* C20: fetch_order_node and draft_reply_node leave the issue type and the
\* order id of classify_node unchanged: the lookup is asked for that order
\* id, and the response returns that order id and the issue type this turn's
\* classification produced.
LookupAndDraftingFrame ==
    \A w \in Workers :
        /\ (Classified(w) /\ turn[w].pc # "classify") =>
              /\ turn[w].state.order_id = turn[w].classified.order_id
              /\ turn[w].state.issue_type = turn[w].classified.issue_type
              /\ turn[w].classified.issue_type = turn[w].output.issue_type
        /\ turn[w].lookup # NoLookup =>
              /\ Truthy(turn[w].classified.order_id)
              /\ turn[w].lookup.requested = turn[w].classified.order_id
        /\ (turn[w].pc = "done" /\ turn[w].result.status = 200) =>
              /\ turn[w].result.order_id = turn[w].classified.order_id
              /\ turn[w].result.issue_type = turn[w].output.issue_type
              /\ turn[w].lookup # NoLookup =>
                    turn[w].lookup.requested = turn[w].result.order_id

LookupAndDraftingFrameWitness ==
    \E w \in Workers :
        /\ turn[w].pc = "done"
        /\ turn[w].result.status = 200
        /\ turn[w].endpoint = "main"
        /\ turn[w].visited = <<"classify", "fetch_order", "draft_reply">>
        /\ turn[w].classified.order_id = IdDash4521
        /\ turn[w].result.order_id = IdDash4521
        /\ turn[w].result.issue_type = "damaged_item"

====
